---- MODULE Spec2Model ----
(***************************************************************************)
(* A model of the OpenAQ ingestion scripts: the retrying HTTP fetch, the   *)
(* pagination loops built on it, and the orchestration of one run          *)
(* (locations, sensors, measurements, batch files, summary).               *)
(*                                                                         *)
(* Three implementations are modelled side by side, selected by `impl`:    *)
(*   "full"   scripts/run_full_ingestion.py  FullScaleOpenAQIngester        *)
(*   "nepal"  scripts/nepal_ingestion.py     NepalOpenAQIngester            *)
(*   "basic"  scripts/ingest_openaq_data.py  OpenAQIngester                 *)
(*                                                                         *)
(* Time is a count of seconds slept; request_delay (0.3 s, 0.5 s, 1.0 s)   *)
(* is not an integer and is recorded as a flag "the inter-request delay    *)
(* was slept" instead of a duration.                                       *)
(***************************************************************************)
EXTENDS Integers, Sequences, FiniteSets, TLC

VARIABLES
    impl,        \* which implementation runs
    jsonIsReqEx, \* the installed requests library raises a JSONDecodeError
                 \* that is also a RequestException (requests >= 2.27)
    limit,       \* page size of the pagination loops (limit = 1000 in the code)
    world,       \* the upstream data: [locs, sens, meas] stream lengths
    th,          \* per thread: the frames of make_request and of the paginator
    trace,       \* ghost: the attempts of the current make_request call of thread 0
    ghost,       \* what is recorded besides the program's state: "trace"
                 \* (trace and counters), "count" (counters), "off"
    progress,    \* NepalOpenAQIngester.progress / FullScaleOpenAQIngester.stats
    batch_size,  \* flush threshold of the measurement buffer (self.batch_size)
    run,         \* the locals of run_full_ingestion / run_nepal_ingestion
    pool,        \* get_sensor_measurements_batch: the executor and its locals
    files,       \* the parquet files written so far, in order
    flat         \* the records in the hands of the flattening code

vars == <<impl, jsonIsReqEx, limit, world, th, trace, ghost, progress,
          batch_size, run, pool, files, flat>>

----------------------------------------------------------------------------
(* Bounds of the model *)

MaxN == 4          \* longest upstream stream of one paginated resource
MaxLimit == 2      \* page sizes 1..MaxLimit stand for limit = 1000
MaxCountries == 2  \* countries of a full-scale run (TARGET_COUNTRIES has 3)
MaxLocs == 1       \* locations of one country
MaxSens == 2       \* sensors of one location
MaxMeas == 2       \* measurements of one sensor
MaxBatch == 2      \* flush thresholds 1..MaxBatch stand for batch_size
sensor_batch_size == 2  \* sensors handed to the pool at a time (50 in the code)
MaxRuns == 2       \* invocations of the run method on one ingester

(* Program constants *)

retries == 3       \* FullScaleOpenAQIngester.make_request(retries: int = 3)
max_retries == 3   \* NepalOpenAQIngester.max_retries
max_workers == 3   \* MAX_WORKERS, worker threads of the pool

Impls == {"full", "nepal", "basic"}
Retrying == {"full", "nepal"}  \* the ingesters whose fetch retries

(* How one GET can end: a 2xx answer with a JSON body, requests' Timeout,  *)
(* HTTP 429, HTTP 5xx, another 4xx, a 2xx answer whose body is not JSON,   *)
(* and requests' ConnectionError.                                          *)
Outcomes ==
    {"Success", "Timeout", "RateLimited", "ServerError", "ClientError",
     "MalformedResponse", "NetworkError"}

Threads_OneMore == 0 .. max_workers + 1

(* Thread 0 is the main thread, the others are the worker threads of the   *)
(* executor.                                                               *)
Threads == 0 .. max_workers

RECURSIVE Pow2(_)
Pow2(k) == IF k = 0 THEN 1 ELSE 2 * Pow2(k - 1)

----------------------------------------------------------------------------
(* One iteration of the retry loop, for the answer o of its GET.           *)
(*   next   "return": the body is returned; "continue": the loop goes on   *)
(*          to its next iteration (if any), "break": the loop is left      *)
(*   delay  number of time.sleep(self.request_delay) calls executed        *)
(*   waits  the other time.sleep calls of the iteration, in order, seconds *)
(*   errors increments of progress['errors_encountered']                   *)

Step(next, delay, waits, errors) ==
    [next |-> next, delay |-> delay, waits |-> waits, errors |-> errors]

(* FullScaleOpenAQIngester.make_request, body of `for attempt in           *)
(* range(retries + 1)`.  A handler that neither continues nor breaks falls *)
(* off the end of the loop body, and the for loop goes on.                 *)

(* `except requests.exceptions.Timeout` *)
except_Timeout(attempt) ==
    IF attempt < retries
    THEN Step("continue", 0, <<Pow2(attempt)>>, 0)
    ELSE Step("continue", 0, <<>>, 0)

except_HTTPError_NoRetry429(attempt, o) ==
    IF o = "RateLimited"
    THEN Step("break", 0, <<>>, 0)
    ELSE IF o = "ServerError" /\ attempt < retries
    THEN Step("continue", 0, <<5 * (attempt + 1)>>, 0)
    ELSE Step("continue", 0, <<>>, 0)

(* `except requests.exceptions.HTTPError`: 429, >= 500, and the rest, which *)
(* is only logged.                                                          *)
except_HTTPError(attempt, o) ==
    IF o = "RateLimited" /\ attempt < retries
    THEN Step("continue", 0, <<60 * (attempt + 1)>>, 0)
    ELSE IF o = "ServerError" /\ attempt < retries
    THEN Step("continue", 0, <<5 * (attempt + 1)>>, 0)
    ELSE Step("continue", 0, <<>>, 0)

(* `except requests.exceptions.RequestException`, reached with `slept`     *)
(* inter-request delays already executed in the try block.                 *)
except_RequestException(attempt, slept) ==
    IF attempt < retries
    THEN Step("continue", slept, <<Pow2(attempt)>>, 0)
    ELSE Step("continue", slept, <<>>, 0)

(* `except json.JSONDecodeError`: response.json() raised after             *)
(* raise_for_status passed and request_delay was slept.                    *)
except_JSONDecodeError == Step("break", 1, <<>>, 0)

make_request(attempt, o) ==
    CASE o = "Success" -> Step("return", 1, <<>>, 0)
      [] o = "Timeout" -> except_Timeout(attempt)
      [] o \in {"RateLimited", "ServerError", "ClientError"} ->
            except_HTTPError(attempt, o)
      [] o = "NetworkError" -> except_RequestException(attempt, 0)
      [] o = "MalformedResponse" ->
            \* requests' JSONDecodeError is a RequestException from 2.27 on,
            \* and that handler comes first
            IF jsonIsReqEx
            THEN except_RequestException(attempt, 1)
            ELSE except_JSONDecodeError

(* NepalOpenAQIngester.make_request_with_retry, body of `for attempt in    *)
(* range(self.max_retries)`: every handler falls through to the common     *)
(* "wait before retry".                                                    *)
BackoffNepal_Exponential(attempt) ==
    IF attempt < max_retries - 1 THEN <<Pow2(attempt)>> ELSE <<>>

BackoffNepal(attempt) ==
    IF attempt < max_retries - 1 THEN <<(attempt + 1) * 2>> ELSE <<>>

make_request_with_retry(attempt, o) ==
    CASE o = "Success" -> Step("return", 1, <<>>, 0)
      [] o = "Timeout" -> Step("continue", 0, BackoffNepal(attempt), 1)
      [] o = "RateLimited" ->
            Step("continue", 0, <<60>> \o BackoffNepal(attempt), 0)
      [] o \in {"ServerError", "ClientError"} ->
            Step("continue", 0, BackoffNepal(attempt), 1)
      [] o = "NetworkError" ->
            Step("continue", 0, <<5>> \o BackoffNepal(attempt), 1)
      [] o = "MalformedResponse" ->
            Step("continue", 1, BackoffNepal(attempt), 1)

make_request_basic_DelayFirst(attempt, o) ==
    CASE o = "Success" -> Step("return", 1, <<>>, 0)
      [] OTHER -> Step("break", 1, <<>>, 0)

(* OpenAQIngester.make_request: one GET, no loop.                          *)
make_request_basic(attempt, o) ==
    CASE o = "Success" -> Step("return", 1, <<>>, 0)
      [] o = "MalformedResponse" -> Step("break", 1, <<>>, 0)
      [] OTHER -> Step("break", 0, <<>>, 0)

(* One iteration of the fetch routine of implementation i. *)
AttemptOf(i, attempt, o) ==
    CASE i = "full" -> make_request(attempt, o)
      [] i = "nepal" -> make_request_with_retry(attempt, o)
      [] i = "basic" -> make_request_basic(attempt, o)

Attempt(attempt, o) == AttemptOf(impl, attempt, o)

Attempts_OneFewer ==
    CASE impl = "full" -> retries
      [] impl = "nepal" -> max_retries - 1
      [] impl = "basic" -> 1

AttemptsOf_AllRetry(i) == retries + 1

(* Number of iterations of the retry loop: range(retries + 1),             *)
(* range(self.max_retries), and the single GET of the basic ingester.      *)
AttemptsOf(i) ==
    CASE i = "full" -> retries + 1
      [] i = "nepal" -> max_retries
      [] i = "basic" -> 1

Attempts_OneMore == AttemptsOf(impl) + 1

Attempts == AttemptsOf(impl)

----------------------------------------------------------------------------
(* Upstream and frames *)

Min(a, b) == IF a < b THEN a ELSE b
Max(a, b) == IF a > b THEN a ELSE b

(* The API's answer to {page, limit} on a resource whose result stream has *)
(* n records: records (page-1)*limit+1 .. min(page*limit, n), in order.    *)
(* A record is <<kind, id of the country or sensor, index in the stream>>. *)
StreamLen(kind) == IF kind = "locations" THEN world.locs ELSE world.meas

ServerPage(kind, id, page) ==
    LET n == StreamLen(kind)
        k == Max(0, Min(limit, n - (page - 1) * limit))
    IN  [i \in 1 .. k |-> <<kind, id, (page - 1) * limit + i>>]

(* The whole stream, what a complete pagination returns. *)
Stream(kind, id) == [i \in 1 .. StreamLen(kind) |-> <<kind, id, i>>]

(* make_request's return value: None, or the parsed body.  `get` is a      *)
(* ghost: the number of the GET that produced the body.                    *)
None == [ok |-> FALSE, results |-> <<>>, get |-> 0]
Body(results, g) == [ok |-> TRUE, results |-> results, get |-> g]

(* The frames of one thread: make_request (fpc, attempt, response), the    *)
(* pagination loop (ppc, kind, id, page, acc) and ghost counters.          *)
IdleThread ==
    [fpc |-> "idle", attempt |-> 0, response |-> None,
     ppc |-> "idle", kind |-> "none", id |-> 0, page |-> 0, acc |-> <<>>,
     calls |-> 0, reqs |-> 0, gets |-> 0, fails |-> 0, failedPage |-> 0]

(* FullScaleOpenAQIngester.stats (the total_ counters,                     *)
(* countries_processed, current_sensor, batch_count) and                   *)
(* NepalOpenAQIngester.progress (the _processed counters,                  *)
(* measurements_collected, errors_encountered) as built by __init__.       *)
ZeroProgress ==
    [total_locations |-> 0, total_sensors |-> 0, total_measurements |-> 0,
     countries_processed |-> 0, current_sensor |-> 0, batch_count |-> 0,
     locations_processed |-> 0, sensors_processed |-> 0,
     measurements_collected |-> 0, errors_encountered |-> 0]

(* The locals of a run before it starts, and an executor with no work.    *)
(* `attempted` (the sensors whose measurement loop was called) and `last`  *)
(* (the last addition to the measurement buffer: its length right after    *)
(* the extend, whether the threshold check flushed, its length after the   *)
(* check) are ghosts, and so is `flushes`, the flushes of the measurement   *)
(* buffer in order: the file name, the number of records handed to the     *)
(* writer, whether the file was written, and whether it was the final      *)
(* flush.  `phases` lists the phases the run has entered, `logged` tells    *)
(* that log_final_statistics has run, `runs` counts the invocations of the *)
(* run method on this ingester and `at_start` keeps the counters as the    *)
(* current invocation found them.  `muts` collects the mutations of the    *)
(* statistics counters and of the measurement lists that the full-scale    *)
(* run has made: what was mutated, by which thread, and whether self.lock  *)
(* was held.  `returned` is the set of the measurement records that the    *)
(* as_completed loop has received from the workers.                        *)
NoAdd == [peak |-> 0, flushed |-> FALSE, after |-> 0]

(* No KeyboardInterrupt or other exception has reached the run.  The       *)
(* record of one is a ghost: its kind, where the run was, the counters and *)
(* the measurement buffer at that moment, and the measurement records the  *)
(* workers had returned by then.                                           *)
NoSignal ==
    [kind |-> "none", phase |-> "none", counts |-> ZeroProgress,
     buffer |-> <<>>, returned |-> {}]

(* No summary has been written or logged yet. *)
NoSummary ==
    [status |-> "none", counts |-> ZeroProgress, measurement_files |-> <<>>]

IdleRun ==
    [pc |-> "start", country |-> 0, all_locations |-> <<>>,
     all_sensors |-> <<>>, current_batch |-> <<>>,
     measurement_batches |-> <<>>, i |-> 0, batch_count |-> 0,
     summary |-> NoSummary, logged |-> FALSE, attempted |-> {},
     last |-> NoAdd, flushes |-> <<>>, signal |-> NoSignal,
     phases |-> <<"Init">>, runs |-> 0, at_start |-> ZeroProgress,
     muts |-> {}, returned |-> {}]

(* `batch` (the sensors submitted by the current call) and `joined` (the    *)
(* sensors whose future the as_completed loop has handled, in that order)  *)
(* are ghosts.                                                             *)
IdlePool ==
    [queue |-> <<>>, finished |-> {}, all_measurements |-> <<>>,
     batch |-> <<>>, joined |-> <<>>]

----------------------------------------------------------------------------
(* The records of the API and their flattening.                            *)
(* A Python value is None, a scalar, a dict (a function on its keys) or a  *)
(* list.  Only the keys that the flattening code treats differently are    *)
(* kept: locality, timezone, owner, ... are copied like id and name.       *)

PyNone == [t |-> "None"]
V(x) == [t |-> "scalar", v |-> x]
D(f) == [t |-> "dict", d |-> f]
L(s) == [t |-> "list", l |-> s]

(* `{}`, and the marker of a key that a dict under construction lacks. *)
EmptyDict == [k \in {} |-> PyNone]
Missing == [t |-> "missing"]
Dict(f) == [k \in {x \in DOMAIN f : f[x] # Missing} |-> f[k]]

(* d.get(key, default); d.get(key) is get(d, key, PyNone). *)
get(d, key, default) == IF key \in DOMAIN d THEN d[key] ELSE default

(* d.get(outer, {}).get(inner): the default {} is used only when the key   *)
(* is absent, so a key that is present with the value None gives None, and *)
(* None.get raises AttributeError.                                         *)
NestedRaises(d, outer) == get(d, outer, D(EmptyDict)).t # "dict"

Nested(d, outer, inner) ==
    LET x == get(d, outer, D(EmptyDict))
    IN  IF x.t = "dict" THEN get(x.d, inner, PyNone) ELSE PyNone

update_KeepExisting(d, other) ==
    [k \in DOMAIN d \cup DOMAIN other |->
        IF k \in DOMAIN d THEN d[k] ELSE other[k]]

(* dict.update: the keys of `other` are set on the dict itself. *)
update(d, other) ==
    [k \in DOMAIN d \cup DOMAIN other |->
        IF k \in DOMAIN other THEN other[k] ELSE d[k]]

(* The dict literal `sensor_info = {...}` of                               *)
(* FullScaleOpenAQIngester.extract_sensors_from_locations.                 *)
sensor_info_full(sensor, location) ==
    [sensor_id |-> get(sensor, "id", PyNone),
     sensor_name |-> get(sensor, "name", PyNone),
     parameter |-> get(sensor, "parameter", D(EmptyDict)),
     location_id |-> get(location, "id", PyNone),
     location_name |-> get(location, "name", PyNone),
     country |-> get(location, "country", D(EmptyDict)),
     coordinates |-> get(location, "coordinates", D(EmptyDict)),
     provider |-> get(location, "provider", D(EmptyDict))]

(* The same of NepalOpenAQIngester.extract_sensors_from_locations, with    *)
(* its defaults "Unknown" and parameter.get("name", "Unknown").            *)
sensor_info_nepal(sensor, location) ==
    [sensor_id |-> get(sensor, "id", PyNone),
     sensor_name |-> get(sensor, "name", V("Unknown")),
     parameter |-> get(sensor, "parameter", D(EmptyDict)),
     parameter_name |->
         LET parameter == get(sensor, "parameter", D(EmptyDict))
         IN  IF parameter.t = "dict"
             THEN get(parameter.d, "name", V("Unknown"))
             ELSE PyNone,
     location_id |-> get(location, "id", PyNone),
     location_name |-> get(location, "name", V("Unknown")),
     country |-> get(location, "country", D(EmptyDict)),
     coordinates |-> get(location, "coordinates", D(EmptyDict)),
     provider |-> get(location, "provider", D(EmptyDict))]

sensor_info(sensor, location) ==
    IF impl = "nepal"
    THEN sensor_info_nepal(sensor, location)
    ELSE sensor_info_full(sensor, location)

(* `location_sensors = location.get("sensors", [])` and the loop over it:  *)
(* iterating None (and len(None) in the Nepal log line) raises TypeError,  *)
(* and the Nepal ingester calls parameter.get on each sensor's parameter.  *)
location_sensors(location) == get(location, "sensors", L(<<>>))

ExtractRaises(location) ==
    \/ location_sensors(location).t # "list"
    \/ /\ impl = "nepal"
       /\ \E i \in 1 .. Len(location_sensors(location).l) :
             NestedRaises(location_sensors(location).l[i], "parameter")

ExtractOne(location) ==
    LET ls == location_sensors(location)
    IN  IF ls.t = "list"
        THEN [i \in 1 .. Len(ls.l) |-> sensor_info(ls.l[i], location)]
        ELSE <<>>

RECURSIVE ExtractAll(_)
ExtractAll(locations) ==
    IF locations = <<>>
    THEN <<>>
    ELSE ExtractOne(Head(locations)) \o ExtractAll(Tail(locations))

(* The argument of measurement.update in get_sensor_measurements_single    *)
(* (full) and in get_sensor_measurements (nepal); ingestion_timestamp is   *)
(* left out.                                                               *)
measurement_context(si) ==
    IF impl = "nepal"
    THEN [sensor_id |-> get(si, "sensor_id", PyNone),
          sensor_name |-> get(si, "sensor_name", V("Unknown")),
          parameter_name |-> get(si, "parameter_name", V("Unknown")),
          location_id |-> get(si, "location_id", PyNone),
          location_name |-> get(si, "location_name", V("Unknown")),
          country_name |-> V("Nepal"),
          country_code |-> V("NP")]
    ELSE [sensor_id |-> get(si, "sensor_id", PyNone),
          sensor_name |-> get(si, "sensor_name", PyNone),
          location_id |-> get(si, "location_id", PyNone),
          location_name |-> get(si, "location_name", PyNone),
          country_name |-> Nested(si, "country", "name"),
          country_code |-> Nested(si, "country", "code"),
          coordinates_lat |-> Nested(si, "coordinates", "latitude"),
          coordinates_lon |-> Nested(si, "coordinates", "longitude"),
          provider_name |-> Nested(si, "provider", "name")]

InjectRaises(si) ==
    /\ impl # "nepal"
    /\ \/ NestedRaises(si, "country")
       \/ NestedRaises(si, "coordinates")
       \/ NestedRaises(si, "provider")

(* The flattening code's objects: the location handed to the sensor        *)
(* extraction, the sensor_info dicts it returned, the record objects of    *)
(* the response's results list and the list the measurement loop returns.  *)
(* api_measurement (a measurement as the API delivers it) and `entry` (the *)
(* counters when the current call was entered) are ghosts.                 *)
NoFlat ==
    [pc |-> "off", location |-> EmptyDict, sensors |-> <<>>,
     api_measurement |-> EmptyDict, results |-> <<>>, measurements |-> <<>>,
     raised |-> "no", entry |-> ZeroProgress]

(* The flattening is followed in SpecFlat only. *)
Flattening == flat.pc # "off"

(* `for measurement in results: measurement.update({...})` and             *)
(* `measurements.extend(results)` on a page of n records: the objects of   *)
(* the results list are updated in place, and the list returned holds the  *)
(* same objects.                                                           *)
Inject(fl, n) ==
    LET flat_record == update(fl.api_measurement,
                              measurement_context(fl.sensors[1]))
    IN  [fl EXCEPT !.results = [i \in 1 .. n |-> flat_record],
                   !.measurements = @ \o [i \in 1 .. n |-> flat_record]]

NoRun ==
    /\ batch_size = 1
    /\ run = IdleRun
    /\ pool = IdlePool
    /\ flat = NoFlat
    /\ files = <<>>

LockHeld_Always(target) == TRUE

(* The statements that stand inside a `with self.lock:` block. *)
LockHeld(target) ==
    target \in {"total_locations", "total_sensors", "current_sensor",
                "total_measurements"}

(* Thread t of the full-scale ingester mutates the targets. *)
Mutate(r, targets, t) ==
    IF impl = "full"
    THEN [r EXCEPT !.muts = @ \cup {[target |-> x, thread |-> t,
                                     locked |-> LockHeld(x)] : x \in targets}]
    ELSE r

Tracing == ghost = "trace"
Counting == ghost # "off"

(* Entry of make_request for the current page of the frame. *)
CallFetch(f) ==
    [f EXCEPT !.fpc = "get", !.attempt = 0, !.response = None,
              !.calls = 0, !.reqs = IF Counting THEN @ + 1 ELSE @]

----------------------------------------------------------------------------
(* make_request / make_request_with_retry: one GET of thread t, answered o *)

Get(t, o) ==
    /\ th[t].fpc = "get"
    /\ LET f == th[t]
           a == f.attempt
           s == Attempt(a, o)
           again == s.next = "continue" /\ a + 1 < Attempts
           body == Body(ServerPage(f.kind, f.id, f.page),
                        IF Counting THEN a + 1 ELSE 0)
       IN  /\ th' = [th EXCEPT ![t] =
                 [f EXCEPT !.fpc = IF again THEN "get" ELSE "ret",
                           !.attempt = IF again THEN a + 1 ELSE a,
                           !.response = IF s.next = "return" THEN body ELSE None,
                           !.calls = IF Counting THEN @ + 1 ELSE @,
                           !.gets = IF Counting THEN @ + 1 ELSE @,
                           !.fails = IF Counting /\ o # "Success" THEN @ + 1 ELSE @]]
           /\ progress' =
                 [progress EXCEPT !.errors_encountered =
                                      IF Counting THEN @ + s.errors ELSE @]
           /\ trace' =
                 IF Tracing /\ t = 0
                 THEN Append(trace, [o |-> o, attempt |-> a,
                                     delay |-> s.delay, waits |-> s.waits])
                 ELSE trace
    /\ UNCHANGED <<flat, impl, jsonIsReqEx, limit, world, ghost, batch_size, run,
                   pool, files>>

----------------------------------------------------------------------------
(* SpecFetch: one call of the fetch routine of one implementation, its     *)
(* GETs answered in every possible way.                                    *)

InitFetch ==
    /\ impl \in Impls
    /\ jsonIsReqEx \in BOOLEAN
    /\ limit = 1
    /\ world = [locs |-> 1, sens |-> 0, meas |-> 0]
    /\ th = [t \in Threads |->
               IF t = 0
               THEN [IdleThread EXCEPT !.fpc = "get", !.kind = "locations",
                                       !.id = 1, !.page = 1]
               ELSE IdleThread]
    /\ trace = <<>>
    /\ ghost = "trace"
    /\ progress = ZeroProgress
    /\ NoRun

NextFetch == \E o \in Outcomes : Get(0, o)

SpecFetch == InitFetch /\ [][NextFetch]_vars

----------------------------------------------------------------------------
(* The pagination loops: get_all_locations_for_country and                 *)
(* get_sensor_measurements_single (full), get_nepal_locations and          *)
(* get_sensor_measurements (nepal), get_all_locations and                  *)
(* get_sensor_measurements (basic).  The frame's kind says which.          *)

LoopStops_OnlyOnEmpty(response) ==
    \/ ~response.ok
    \/ response.results = <<>>

LoopStops_SkipFailedPage(response) ==
    /\ response.ok
    /\ \/ response.results = <<>>
       \/ Len(response.results) < limit

(* The three breaks of `while True`: `if not response`, `if not results`,  *)
(* `if len(results) < limit`.                                              *)
LoopStops(response) ==
    \/ ~response.ok
    \/ response.results = <<>>
    \/ Len(response.results) < limit

(* Function entry.  The measurement loops of the full and Nepal ingesters  *)
(* return [] at once for a sensor without id (id 0 stands for a missing or *)
(* zero sensor_id); otherwise page = 1 and the first request is issued.    *)
Paginate(f, kind, id) ==
    LET g == [f EXCEPT !.kind = kind, !.id = id, !.page = 1, !.acc = <<>>,
                       !.reqs = 0, !.gets = 0, !.fails = 0, !.failedPage = 0]
    IN  IF kind = "measurements" /\ id = 0 /\ impl # "basic"
        THEN [g EXCEPT !.ppc = "done", !.page = 0]
        ELSE CallFetch([g EXCEPT !.ppc = "fetching"])

PageProgress_Forgotten(p, kind, appended, stops, total) == p

(* The counters a pagination loop updates itself: the Nepal loops per page *)
(* appended, get_all_locations_for_country once after its loop.            *)
PageProgress(p, kind, appended, stops, total) ==
    CASE impl = "nepal" /\ kind = "locations" ->
            [p EXCEPT !.locations_processed = @ + appended]
      [] impl = "nepal" /\ kind = "measurements" ->
            [p EXCEPT !.measurements_collected = @ + appended]
      [] impl = "full" /\ kind = "locations" /\ stops ->
            [p EXCEPT !.total_locations = @ + total]
      [] OTHER -> p

(* The rest of one iteration of `while True`, after make_request returned: *)
(* the breaks, the append, the page increment and the next request; when   *)
(* the loop stops, the function's epilogue up to its return.               *)
PageHandle(t) ==
    /\ th[t].ppc = "fetching"
    /\ th[t].fpc = "ret"
    /\ LET f == th[t]
           results == IF f.response.ok THEN f.response.results ELSE <<>>
           stops == LoopStops(f.response)
           injects == Flattening /\ f.kind = "measurements" /\ results # <<>>
           raises == injects /\ InjectRaises(flat.sensors[1])
           g == [f EXCEPT !.fpc = "idle",
                          !.acc = @ \o results,
                          !.failedPage =
                              IF Counting /\ ~f.response.ok THEN f.page ELSE @]
       IN  IF raises
           THEN /\ th' = [th EXCEPT ![t] = [f EXCEPT !.fpc = "idle",
                                                     !.ppc = "raised"]]
                /\ flat' = [flat EXCEPT !.pc = "raised",
                                        !.raised = "AttributeError"]
                /\ UNCHANGED <<progress, run>>
           ELSE /\ th' = [th EXCEPT ![t] =
                      IF stops
                      THEN [g EXCEPT !.ppc = "done"]
                      ELSE CallFetch([g EXCEPT !.page = @ + 1])]
                /\ progress' = PageProgress(progress, f.kind, Len(results),
                                            stops, Len(g.acc))
                /\ run' = IF f.kind = "locations" /\ stops
                          THEN Mutate(run, {"total_locations"}, t)
                          ELSE run
                /\ flat' = IF injects
                           THEN Inject(flat, Len(results))
                           ELSE flat
    /\ UNCHANGED <<impl, jsonIsReqEx, limit, world, trace, ghost, batch_size,
                   pool, files>>

----------------------------------------------------------------------------
(* SpecPage: one call of one pagination loop on a stream of n records with *)
(* page size `limit`, every GET answered in every possible way.            *)

InitPage ==
    /\ impl \in Impls
    /\ jsonIsReqEx \in BOOLEAN
    /\ limit \in 1 .. MaxLimit
    /\ ghost = "count"
    /\ trace = <<>>
    /\ progress = ZeroProgress
    /\ NoRun
    /\ \E kind \in {"locations", "measurements"}, n \in 0 .. MaxN, id \in 0 .. 1 :
          /\ kind = "locations" => id = 1
          /\ impl = "basic" => id = 1
          /\ world = IF kind = "locations"
                     THEN [locs |-> n, sens |-> 0, meas |-> 0]
                     ELSE [locs |-> 0, sens |-> 0, meas |-> n]
          /\ th = [t \in Threads |->
                     IF t = 0 THEN Paginate(IdleThread, kind, id)
                     ELSE IdleThread]

NextPage ==
    \/ \E o \in Outcomes : Get(0, o)
    \/ PageHandle(0)

SpecPage == InitPage /\ [][NextPage]_vars

(* The same under the scheduling the code relies on: the thread that runs  *)
(* the loop keeps running, every GET ends (requests.get is called with a   *)
(* timeout), and every sleep of the backoff ends.                          *)
SpecPageFair == SpecPage /\ WF_vars(NextPage)

----------------------------------------------------------------------------
(* The orchestration of one run: run_full_ingestion (full) and             *)
(* run_nepal_ingestion (nepal).                                            *)

Countries_OneFewer == IF impl = "nepal" THEN 1 ELSE MaxCountries - 1

(* Number of countries of the run: the entries of target_countries, or     *)
(* Nepal alone.                                                            *)
Countries == IF impl = "nepal" THEN 1 ELSE MaxCountries

(* The sensors nested in a location record <<"locations", country, index>>: *)
(* world.sens of them, with ids that are unique over the run.              *)
SensorsOf(location) ==
    [k \in 1 .. world.sens |-> 100 * location[2] + 10 * location[3] + k]

RECURSIVE extract_sensors_from_locations(_)
extract_sensors_from_locations(locations) ==
    IF locations = <<>>
    THEN <<>>
    ELSE SensorsOf(Head(locations))
            \o extract_sensors_from_locations(Tail(locations))

FileName_NoIndex(kind, index) == [kind |-> kind, index |-> 0]

(* A file name of the run: every name carries the run's timestamp, which   *)
(* is the same for all the files of one run, besides its kind and, for a   *)
(* threshold flush, the batch index.                                       *)
FileName(kind, index) == [kind |-> kind, index |-> index]

(* save_batch_to_parquet / save_to_parquet_partitioned: nothing is written *)
(* for empty data; a failing write is logged and swallowed.                *)
save_batch_to_parquet(fs, data, filename, ok) ==
    IF data = <<>> \/ ~ok
    THEN fs
    ELSE Append(fs, [name |-> filename, data |-> data])

ThresholdReached_Strict(buffer) == Len(buffer) > batch_size

(* `if len(current_batch) >= self.batch_size` *)
ThresholdReached(buffer) == Len(buffer) >= batch_size

extend_Interleaved(list, other) ==
    IF other = <<>> THEN list ELSE <<Head(other)>> \o list \o Tail(other)

(* list.extend(other): all_measurements.extend(measurements) and           *)
(* current_batch.extend(batch_measurements).                               *)
extend(list, other) == list \o other

batch_count_after_flush_NotFinal(n, final) == IF final THEN n ELSE n + 1

(* `self.stats['batch_count'] += 1` after a threshold flush and after the  *)
(* final flush of the full-scale run.                                      *)
batch_count_after_flush(n, final) == n + 1

ClearBuffer_NotCleared(buffer) == buffer

ClearBuffer_KeepExcess(buffer) == SubSeq(buffer, batch_size + 1, Len(buffer))

(* `current_batch = []` / `all_measurements = []` after a threshold flush. *)
ClearBuffer(buffer) == <<>>

(* The sensors of the batch that starts at offset i:                       *)
(* all_sensors[i:i + sensor_batch_size].                                   *)
SensorBatch(all_sensors, i) ==
    SubSeq(all_sensors, i + 1, Min(i + sensor_batch_size, Len(all_sensors)))

Workers == Threads \ {0}

(* Entering a phase of the run (idempotent while the run is in it). *)
Enter(phases, phase) ==
    IF phases[Len(phases)] = phase THEN phases ELSE Append(phases, phase)

create_ingestion_summary_AlwaysCompleted(p, measurement_files, interrupted) ==
    [status |-> "completed", counts |-> p,
     locations |-> FileName("all_locations", 0),
     sensors |-> FileName("all_sensors", 0),
     measurement_files |-> measurement_files]

(* create_ingestion_summary: the summary file, with the counters as they   *)
(* are when it is called, and its output_files: the names of the locations *)
(* file and of the sensors file and the list of measurement files.         *)
create_ingestion_summary(p, measurement_files, interrupted) ==
    [status |-> IF interrupted THEN "interrupted" ELSE "completed",
     counts |-> p,
     locations |-> FileName("all_locations", 0),
     sensors |-> FileName("all_sensors", 0),
     measurement_files |-> measurement_files]

(* print_progress_summary after the log line that tells how the run ended. *)
print_progress_summary(p, status) ==
    [status |-> status, counts |-> p, measurement_files |-> <<>>]

(* The call of run_full_ingestion / run_nepal_ingestion up to its first    *)
(* request for locations.                                                  *)
RunStart ==
    /\ run.pc = "start"
    /\ run' = [IdleRun EXCEPT !.pc = "locations", !.country = 1,
                              !.phases = Enter(@, "CollectingLocations"),
                              !.runs = 1, !.at_start = progress]
    /\ th' = [th EXCEPT ![0] = Paginate(IdleThread, "locations", 1)]
    /\ UNCHANGED <<flat, impl, jsonIsReqEx, limit, world, trace, ghost, progress,
                   batch_size, pool, files>>

(* The location loop of one country has returned.  Full and basic: extend  *)
(* all_locations, extract the sensors, count (full), go on with the next   *)
(* country.                                                                *)
(* Nepal: return early ("Aborting") when there is no location.             *)
LocationsDone ==
    /\ run.pc = "locations"
    /\ th[0].ppc = "done"
    /\ LET locations == th[0].acc
           sensors == extract_sensors_from_locations(locations)
           more == run.country < Countries
       IN  IF impl = "nepal"
           THEN /\ run' = IF locations = <<>>
                          THEN [run EXCEPT !.pc = "aborted",
                                           !.phases = Enter(@, "Aborted")]
                          ELSE [run EXCEPT !.pc = "save",
                                           !.all_locations = locations]
                /\ th' = [th EXCEPT ![0] = IdleThread]
                /\ UNCHANGED progress
           ELSE /\ run' = [Mutate(run, {"total_sensors",
                                        "countries_processed"}, 0) EXCEPT
                               !.all_locations = @ \o locations,
                               !.all_sensors = @ \o sensors,
                               !.country = IF more THEN @ + 1 ELSE @,
                               !.pc = IF more THEN "locations" ELSE "save",
                               !.phases =
                                   IF more
                                   THEN Enter(Enter(@, "ExtractingSensors"),
                                              "CollectingLocations")
                                   ELSE Enter(@, "ExtractingSensors")]
                /\ progress' = IF impl = "full"
                                THEN [progress EXCEPT
                                         !.total_sensors = @ + Len(sensors),
                                         !.countries_processed = @ + 1]
                                ELSE progress
                /\ th' = [th EXCEPT ![0] =
                             IF more
                             THEN Paginate(IdleThread, "locations",
                                           run.country + 1)
                             ELSE IdleThread]
    /\ UNCHANGED <<flat, impl, jsonIsReqEx, limit, world, trace, ghost, batch_size,
                   pool, files>>

(* Hand the batch of sensors at offset i to the executor, or leave the     *)
(* sensor loop when there is none.                                         *)
SubmitBatch(r, i) ==
    IF i < Len(r.all_sensors)
    THEN [r EXCEPT !.pc = "batch", !.i = i]
    ELSE [r EXCEPT !.pc = "final", !.i = i]

QueueOf(r) ==
    IF r.pc = "batch" THEN SensorBatch(r.all_sensors, r.i) ELSE <<>>

(* A flush of the measurement buffer, as recorded in run.flushes. *)
Flush(filename, data, ok, final) ==
    [name |-> filename, size |-> Len(data), ok |-> ok, final |-> final]

(* Entry of the sequential sensor loop of the Nepal and the basic          *)
(* ingester: `for i, sensor_info in enumerate(sensors, 1)`.                *)
StartSensorLoop(r) ==
    IF r.all_sensors = <<>>
    THEN [r EXCEPT !.pc = "final"]
    ELSE [r EXCEPT !.pc = "measure", !.i = 1,
                   !.attempted = {r.all_sensors[1]}]

(* Saving the locations and the sensors, and the start of the measurement  *)
(* phase.  Nepal extracts its sensors here and returns early ("Aborting")  *)
(* when there is none.                                                     *)
SaveMeta ==
    /\ run.pc = "save"
    /\ \E ok1, ok2 \in BOOLEAN :
          LET sensors == IF impl = "nepal"
                         THEN extract_sensors_from_locations(run.all_locations)
                         ELSE run.all_sensors
              kinds == IF impl = "full"
                       THEN <<"all_locations", "all_sensors">>
                       ELSE <<"locations", "sensors">>
              f1 == save_batch_to_parquet(files, run.all_locations,
                                          FileName(kinds[1], 0), ok1)
              f2 == save_batch_to_parquet(f1, sensors,
                                          FileName(kinds[2], 0), ok2)
              abort == impl = "nepal" /\ sensors = <<>>
              extracted == IF impl = "nepal"
                           THEN Enter(run.phases, "ExtractingSensors")
                           ELSE run.phases
              r0 == [run EXCEPT
                        !.all_sensors = sensors,
                        !.phases = Enter(extracted, "CollectingMeasurements")]
              r == IF abort
                   THEN [run EXCEPT !.pc = "aborted",
                                    !.phases = Enter(extracted, "Aborted")]
                   ELSE IF impl = "full"
                        THEN SubmitBatch(r0, 0)
                        ELSE StartSensorLoop(r0)
          IN  /\ files' = IF abort THEN f1 ELSE f2
              /\ run' = r
              /\ pool' = [IdlePool EXCEPT !.queue = QueueOf(r),
                                          !.batch = QueueOf(r)]
              /\ th' = IF r.pc = "measure"
                       THEN [th EXCEPT ![0] =
                                Paginate(IdleThread, "measurements",
                                         r.all_sensors[1])]
                       ELSE th
              /\ progress' = IF impl = "nepal"
                             THEN [progress EXCEPT
                                      !.sensors_processed = Len(sensors)]
                             ELSE progress
    /\ UNCHANGED <<flat, impl, jsonIsReqEx, limit, world, trace, ghost, batch_size>>

(* get_sensor_measurements_batch: a free worker thread of the executor     *)
(* takes the next submitted sensor and calls                               *)
(* get_sensor_measurements_single.  The worker threads are                 *)
(* interchangeable: the free one with the lowest number takes it.          *)
WorkerTake(w) ==
    /\ run.pc \in {"batch", "unwinding"}
    /\ pool.queue # <<>>
    /\ th[w].ppc = "idle"
    /\ \A v \in 1 .. w - 1 : th[v].ppc # "idle"
    /\ th' = [th EXCEPT ![w] =
                 Paginate(IdleThread, "measurements", Head(pool.queue))]
    /\ pool' = [pool EXCEPT !.queue = Tail(@)]
    /\ run' = [run EXCEPT !.attempted = @ \cup {Head(pool.queue)}]
    /\ UNCHANGED <<flat, impl, jsonIsReqEx, limit, world, trace, ghost, progress,
                   batch_size, files>>

(* The worker's call returned: its future holds the result.                *)
WorkerFinish(w) ==
    /\ run.pc \in {"batch", "unwinding"}
    /\ th[w].ppc = "done"
    /\ pool' = [pool EXCEPT !.finished =
                   @ \cup {[sensor |-> th[w].id, result |-> th[w].acc]}]
    /\ th' = [th EXCEPT ![w] = IdleThread]
    /\ UNCHANGED <<flat, impl, jsonIsReqEx, limit, world, trace, ghost, progress,
                   batch_size, run, files>>

(* One iteration of `for future in as_completed(future_to_sensor)`.        *)
Join ==
    /\ run.pc = "batch"
    /\ \E f \in pool.finished :
          /\ pool' = [pool EXCEPT
                         !.finished = @ \ {f},
                         !.all_measurements = extend(@, f.result),
                         !.joined = Append(@, f.sensor)]
          /\ progress' = [progress EXCEPT
                             !.current_sensor = @ + 1,
                             !.total_measurements = @ + Len(f.result)]
          /\ run' = [Mutate(run, {"all_measurements", "current_sensor",
                                  "total_measurements"}, 0) EXCEPT
                         !.returned =
                             @ \cup {f.result[k] : k \in 1 .. Len(f.result)}]
    /\ UNCHANGED <<flat, impl, jsonIsReqEx, limit, world, th, trace, ghost,
                   batch_size, files>>

(* get_sensor_measurements_batch returns (every future joined, the         *)
(* executor shut down); the rest of the iteration of the sensor-batch      *)
(* loop: extend, threshold check and flush, next batch.                    *)
BatchReturn ==
    /\ run.pc = "batch"
    /\ pool.queue = <<>>
    /\ pool.finished = {}
    /\ \A w \in Workers : th[w].ppc = "idle"
    /\ \E ok \in BOOLEAN :
          LET buffer == extend(run.current_batch, pool.all_measurements)
              flush == ThresholdReached(buffer)
              batch_filename ==
                  FileName("measurements_batch", progress.batch_count)
              kept == IF flush THEN ClearBuffer(buffer) ELSE buffer
              r == SubmitBatch(
                      [Mutate(run, IF flush
                                   THEN {"current_batch", "batch_count"}
                                   ELSE {"current_batch"}, 0) EXCEPT
                          !.current_batch = kept,
                          !.measurement_batches =
                              IF flush THEN Append(@, batch_filename) ELSE @,
                          !.flushes =
                              IF flush
                              THEN Append(@, Flush(batch_filename, buffer,
                                                   ok, FALSE))
                              ELSE @,
                          !.last = [peak |-> Len(buffer), flushed |-> flush,
                                    after |-> Len(kept)]],
                      run.i + sensor_batch_size)
          IN  /\ files' = IF flush
                          THEN save_batch_to_parquet(files, buffer,
                                                     batch_filename, ok)
                          ELSE files
              /\ progress' = [progress EXCEPT
                                 !.batch_count =
                                     IF flush
                                     THEN batch_count_after_flush(@, FALSE)
                                     ELSE @]
              /\ run' = r
              /\ pool' = [IdlePool EXCEPT !.queue = QueueOf(r),
                                          !.batch = QueueOf(r)]
    /\ UNCHANGED <<flat, impl, jsonIsReqEx, limit, world, th, trace, ghost,
                   batch_size>>

(* run_nepal_ingestion and the basic run_full_ingestion:                   *)
(* get_sensor_measurements returned for sensor i; the rest of the          *)
(* iteration of the sensor loop.  Nepal numbers its files with a local     *)
(* batch_count, the basic ingester with the sensor's index i.              *)
SensorDone ==
    /\ run.pc = "measure"
    /\ th[0].ppc = "done"
    /\ \E ok \in BOOLEAN :
          LET buffer == run.current_batch \o th[0].acc
              flush == ThresholdReached(buffer)
              kept == IF flush THEN ClearBuffer(buffer) ELSE buffer
              more == run.i < Len(run.all_sensors)
              next == IF more THEN run.all_sensors[run.i + 1] ELSE 0
              batch_filename ==
                  IF impl = "basic"
                  THEN FileName("measurements_batch", run.i)
                  ELSE FileName("measurements", run.batch_count + 1)
          IN  /\ files' = IF flush
                          THEN save_batch_to_parquet(files, buffer,
                                                     batch_filename, ok)
                          ELSE files
              /\ run' = [run EXCEPT
                            !.current_batch = kept,
                            !.batch_count =
                                IF flush /\ impl = "nepal" THEN @ + 1 ELSE @,
                            !.flushes =
                                IF flush
                                THEN Append(@, Flush(batch_filename, buffer,
                                                     ok, FALSE))
                                ELSE @,
                            !.last = [peak |-> Len(buffer), flushed |-> flush,
                                      after |-> Len(kept)],
                            !.i = IF more THEN @ + 1 ELSE @,
                            !.attempted = IF more THEN @ \cup {next} ELSE @,
                            !.pc = IF more THEN "measure" ELSE "final"]
              /\ th' = [th EXCEPT ![0] =
                           IF more
                           THEN Paginate(IdleThread, "measurements", next)
                           ELSE IdleThread]
    /\ UNCHANGED <<flat, impl, jsonIsReqEx, limit, world, trace, ghost, progress,
                   batch_size, pool>>

(* After the sensor loop: the final batch, if any, is saved (the buffer is *)
(* not cleared), then the summary: create_ingestion_summary writes it,     *)
(* print_progress_summary logs it; the basic ingester has none.            *)
Finish ==
    /\ run.pc = "final"
    /\ \E ok \in BOOLEAN :
          LET rest == run.current_batch # <<>>
              final_filename ==
                  IF impl = "nepal"
                  THEN FileName("measurements", run.batch_count + 1)
                  ELSE FileName("measurements_final", 0)
              batches == IF rest /\ impl = "full"
                         THEN Append(run.measurement_batches, final_filename)
                         ELSE run.measurement_batches
              p == [progress EXCEPT
                       !.batch_count = IF rest /\ impl = "full"
                                       THEN batch_count_after_flush(@, TRUE)
                                       ELSE @]
          IN  /\ files' = save_batch_to_parquet(files, run.current_batch,
                                                final_filename, ok)
              /\ progress' = p
              /\ run' = [Mutate(run, IF rest THEN {"batch_count"} ELSE {}, 0)
                         EXCEPT
                            !.pc = "done",
                            !.measurement_batches = batches,
                            !.batch_count =
                                IF rest /\ impl = "nepal" THEN @ + 1 ELSE @,
                            !.flushes =
                                IF rest
                                THEN Append(@, Flush(final_filename,
                                                     run.current_batch, ok,
                                                     TRUE))
                                ELSE @,
                            !.summary =
                                CASE impl = "full" ->
                                        create_ingestion_summary(p, batches,
                                                                 FALSE)
                                  [] impl = "nepal" ->
                                        print_progress_summary(p, "completed")
                                  [] OTHER -> @,
                            !.logged = impl = "full",
                            !.phases =
                                IF impl = "basic"
                                THEN Enter(@, "Done")
                                ELSE Enter(Enter(@, "Summarizing"), "Done")]
    /\ UNCHANGED <<flat, impl, jsonIsReqEx, limit, world, th, trace, ghost,
                   batch_size, pool>>

----------------------------------------------------------------------------
(* Spec: one run of one of the three ingesters against an upstream of      *)
(* MaxCountries countries, every GET answered in every possible way and    *)
(* every file write succeeding or failing.                                 *)

Init ==
    /\ impl \in Impls
    /\ jsonIsReqEx \in BOOLEAN
    /\ limit = MaxLimit
    /\ world \in [locs : 0 .. MaxLocs, sens : 0 .. MaxSens, meas : 0 .. MaxMeas]
    /\ batch_size \in 1 .. MaxBatch
    /\ th = [t \in Threads |-> IdleThread]
    /\ trace = <<>>
    /\ ghost = "off"
    /\ progress = ZeroProgress
    /\ run = IdleRun
    /\ pool = IdlePool
    /\ flat = NoFlat
    /\ files = <<>>

Next ==
    \/ RunStart
    \/ \E t \in Threads, o \in Outcomes : Get(t, o)
    \/ \E t \in Threads : PageHandle(t)
    \/ LocationsDone
    \/ SaveMeta
    \/ \E w \in Workers : WorkerTake(w)
    \/ \E w \in Workers : WorkerFinish(w)
    \/ Join
    \/ BatchReturn
    \/ SensorDone
    \/ Finish

Spec == Init /\ [][Next]_vars

----------------------------------------------------------------------------
(* Interruption and unexpected errors.                                     *)

PoolDrained ==
    /\ pool.queue = <<>>
    /\ \A w \in Workers : th[w].ppc = "idle"

Range(seq) == {seq[k] : k \in 1 .. Len(seq)}

(* The measurement records of the calls of get_sensor_measurements_single  *)
(* that have returned in the current batch of sensors.                     *)
ReturnedByWorkers ==
    Range(pool.all_measurements)
        \cup UNION {Range(f.result) : f \in pool.finished}

(* A KeyboardInterrupt (Ctrl-C) or some other exception is raised in the   *)
(* main thread somewhere inside the try block of the run and starts to     *)
(* unwind it.  Inside get_sensor_measurements_batch everything that can    *)
(* raise an Exception stands under `except Exception`, so that one reaches *)
(* the run only from its own statements; a KeyboardInterrupt passes.       *)
Signal(kind) ==
    /\ run.pc \in {"locations", "save", "batch", "measure", "final"}
    /\ (kind = "Exception" /\ run.pc = "batch")
          => (PoolDrained /\ pool.finished = {})
    /\ run' = [run EXCEPT
                  !.pc = "unwinding",
                  !.signal = [kind |-> kind, phase |-> run.pc,
                              counts |-> progress,
                              buffer |-> run.current_batch,
                              returned |-> ReturnedByWorkers]]
    /\ th' = [th EXCEPT ![0] = IdleThread]
    /\ UNCHANGED <<flat, impl, jsonIsReqEx, limit, world, trace, ghost, progress,
                   batch_size, pool, files>>

(* The exception leaves the `with ThreadPoolExecutor` block, whose exit    *)
(* waits until every submitted call has run, and reaches the handlers of   *)
(* the run: `except KeyboardInterrupt` writes (full) or logs (Nepal) the   *)
(* summary, `except Exception` logs (Nepal: and prints the summary) and    *)
(* raises again, `finally` logs the final statistics (full).  The basic    *)
(* ingester has no handler.  The locals of the run are not touched.        *)
Except ==
    /\ run.pc = "unwinding"
    /\ PoolDrained
    /\ LET interrupted == run.signal.kind = "KeyboardInterrupt"
       IN  run' = [run EXCEPT
                      !.pc = IF interrupted /\ impl # "basic"
                             THEN "interrupted"
                             ELSE "raised",
                      !.summary =
                          CASE impl = "full" /\ interrupted ->
                                  create_ingestion_summary(
                                      progress, run.measurement_batches, TRUE)
                            [] impl = "nepal" ->
                                  print_progress_summary(
                                      progress,
                                      IF interrupted THEN "interrupted"
                                                     ELSE "failed")
                            [] OTHER -> @,
                      !.logged = impl = "full",
                      !.phases =
                          CASE impl = "basic" -> Enter(@, "Aborted")
                            [] interrupted ->
                                  Enter(Enter(@, "Summarizing"), "Done")
                            [] impl = "nepal" ->
                                  Enter(Enter(@, "Summarizing"), "Aborted")
                            [] OTHER -> Enter(@, "Aborted")]
    /\ pool' = IdlePool
    /\ UNCHANGED <<flat, impl, jsonIsReqEx, limit, world, th, trace, ghost,
                   progress, batch_size, files>>

(* SpecSignals: one run of the full-scale or of the Nepal ingester that a  *)
(* KeyboardInterrupt or an unexpected exception may hit at any moment.     *)
InitSignals ==
    /\ impl \in Retrying
    /\ jsonIsReqEx = TRUE
    /\ limit = MaxLimit
    /\ world = [locs |-> MaxLocs, sens |-> MaxSens, meas |-> 1]
    /\ batch_size \in 1 .. MaxBatch
    /\ th = [t \in Threads |-> IdleThread]
    /\ trace = <<>>
    /\ ghost = "off"
    /\ progress = ZeroProgress
    /\ run = IdleRun
    /\ pool = IdlePool
    /\ flat = NoFlat
    /\ files = <<>>

NextSignals ==
    \/ Next
    \/ \E kind \in {"KeyboardInterrupt", "Exception"} : Signal(kind)
    \/ Except

SpecSignals == InitSignals /\ [][NextSignals]_vars

----------------------------------------------------------------------------
(* A further invocation of the run method on the same ingester.            *)

Ended == run.pc \in {"done", "aborted", "interrupted", "raised"}

(* run_full_ingestion / run_nepal_ingestion is called again after it has   *)
(* returned: its locals are fresh, self.stats / self.progress is the       *)
(* dictionary that __init__ built (only start_time is assigned), and the   *)
(* files of the earlier run are on the disk.                               *)
RunAgain ==
    /\ Ended
    /\ run.runs < MaxRuns
    /\ run' = [IdleRun EXCEPT !.pc = "locations", !.country = 1,
                              !.phases = Enter(@, "CollectingLocations"),
                              !.runs = run.runs + 1, !.at_start = progress]
    /\ th' = [th EXCEPT ![0] = Paginate(IdleThread, "locations", 1)]
    /\ UNCHANGED <<flat, impl, jsonIsReqEx, limit, world, trace, ghost, progress,
                   batch_size, pool, files>>

(* SpecAgain: up to MaxRuns invocations in a row on one ingester, against  *)
(* an upstream with one location per country, one sensor per location and  *)
(* one measurement per sensor.                                             *)
InitAgain ==
    /\ impl \in Retrying
    /\ jsonIsReqEx = TRUE
    /\ limit = MaxLimit
    /\ world = [locs |-> 1, sens |-> 1, meas |-> 1]
    /\ batch_size = MaxBatch
    /\ th = [t \in Threads |-> IdleThread]
    /\ trace = <<>>
    /\ ghost = "off"
    /\ progress = ZeroProgress
    /\ run = IdleRun
    /\ pool = IdlePool
    /\ flat = NoFlat
    /\ files = <<>>

NextAgain ==
    \/ Next
    \/ RunAgain

SpecAgain == InitAgain /\ [][NextAgain]_vars

----------------------------------------------------------------------------
(* SpecPool: the last call of get_sensor_measurements_batch of a           *)
(* full-scale run, on a batch of one sensor more than there are worker     *)
(* threads, each sensor with one measurement upstream.                     *)

PoolBatch == [k \in 1 .. max_workers + 1 |-> k]

InitPool ==
    /\ impl = "full"
    /\ jsonIsReqEx = TRUE
    /\ limit = MaxLimit
    /\ world = [locs |-> 1, sens |-> 1, meas |-> 1]
    /\ batch_size = MaxBatch
    /\ th = [t \in Threads |-> IdleThread]
    /\ trace = <<>>
    /\ ghost = "off"
    /\ progress = ZeroProgress
    /\ run = [IdleRun EXCEPT !.pc = "batch", !.all_sensors = PoolBatch,
                             !.i = Len(PoolBatch) - sensor_batch_size,
                             !.runs = 1,
                             !.phases = <<"Init", "CollectingLocations",
                                          "ExtractingSensors",
                                          "CollectingMeasurements">>]
    /\ pool = [IdlePool EXCEPT !.queue = PoolBatch, !.batch = PoolBatch]
    /\ flat = NoFlat
    /\ files = <<>>

NextPool ==
    \/ \E w \in Workers : WorkerTake(w)
    \/ \E w \in Workers, o \in Outcomes : Get(w, o)
    \/ \E w \in Workers : PageHandle(w)
    \/ \E w \in Workers : WorkerFinish(w)
    \/ Join
    \/ BatchReturn

SpecPool == InitPool /\ [][NextPool]_vars

----------------------------------------------------------------------------
(* Properties of the fetch routines (SpecFetch) *)

Returned == th[0].fpc = "ret"
Hist == [i \in 1 .. Len(trace) |-> trace[i].o]

(* A retry follows attempt i: a further GET was issued or is about to be.  *)
RetryFollows(i) == i < Len(trace) \/ (i = Len(trace) /\ ~Returned)

(* C3: with max_retries = 3 and the GETs of one page answered Timeout,     *)
(* Timeout, Success, both retrying fetch routines make exactly 3 calls:    *)
(* they go on after each timeout and return the body of the 3rd GET.       *)
C3_TimeoutTimeoutSuccess ==
    impl \in Retrying =>
        /\ (Hist \in {<<"Timeout">>, <<"Timeout", "Timeout">>} => ~Returned)
        /\ (Len(trace) >= 3 /\ SubSeq(Hist, 1, 3) = <<"Timeout", "Timeout", "Success">>
              => /\ Len(trace) = 3
                 /\ Returned
                 /\ th[0].calls = 3
                 /\ th[0].response.ok
                 /\ th[0].response.get = 3)

C3_Witness ==
    /\ impl = "nepal"
    /\ Hist = <<"Timeout", "Timeout", "Success">>
    /\ Returned
    /\ th[0].response.ok

AllRateLimited == \A i \in 1 .. Len(trace) : trace[i].o = "RateLimited"

(* C4 as claimed: when every GET is answered 429, every retrying fetch     *)
(* routine attempts exactly 4 calls (retries + 1) and then fails.          *)
C4_FourCallsEverywhere ==
    (impl \in Retrying /\ AllRateLimited /\ Returned) =>
        (th[0].calls = max_retries + 1 /\ ~th[0].response.ok)

(* C4 as amended: when every GET is answered 429, make_request (retries =  *)
(* 3) attempts exactly 4 calls and make_request_with_retry (max_retries =  *)
(* 3) exactly 3, never more, and both then return None.                    *)
C4_RateLimitedCalls ==
    (impl \in Retrying /\ AllRateLimited) =>
        /\ th[0].calls <= (IF impl = "full" THEN retries + 1 ELSE max_retries)
        /\ Returned <=>
              th[0].calls = (IF impl = "full" THEN retries + 1 ELSE max_retries)
        /\ Returned => ~th[0].response.ok

C4_Witness ==
    /\ impl = "nepal"
    /\ Hist = <<"RateLimited", "RateLimited", "RateLimited">>
    /\ Returned
    /\ th[0].calls = 3

(* C5: a GET answered with a ClientError (4xx other than 429) or with a    *)
(* MalformedResponse is not retried: it is the last GET of the call, which *)
(* returns at once.                                                        *)
C5_NoRetryOnClientOrMalformed ==
    \A i \in 1 .. Len(trace) :
        trace[i].o \in {"ClientError", "MalformedResponse"} =>
            (i = Len(trace) /\ Returned /\ ~th[0].response.ok)

(* C6: after a Timeout, a ServerError or a NetworkError on attempt k that  *)
(* is followed by a retry, the wait is 2^(k-1) seconds.                    *)
C6_ExponentialBackoff ==
    \A k \in 1 .. Len(trace) :
        (trace[k].o \in {"Timeout", "ServerError", "NetworkError"}
           /\ RetryFollows(k))
        => trace[k].waits = <<Pow2(k - 1)>>

(* C7 as claimed: after a 429 on attempt a that is followed by a retry the *)
(* wait is the cool-down 60 * a and nothing else.                          *)
C7_CooldownOnly ==
    \A a \in 1 .. Len(trace) :
        (trace[a].o = "RateLimited" /\ RetryFollows(a))
        => trace[a].waits = <<60 * a>>

(* C7 as amended: after a 429 on attempt a that is followed by a retry,    *)
(* make_request waits the cool-down 60 * a and nothing else, while         *)
(* make_request_with_retry waits a fixed 60 s cool-down and then its       *)
(* common backoff of 2 * a seconds on top.                                 *)
C7_Cooldown ==
    \A a \in 1 .. Len(trace) :
        (trace[a].o = "RateLimited" /\ RetryFollows(a))
        => /\ impl = "full" => trace[a].waits = <<60 * a>>
           /\ impl = "nepal" => trace[a].waits = <<60, 2 * a>>

C7_Witness ==
    /\ impl = "nepal"
    /\ Len(trace) = 3
    /\ trace[2].o = "RateLimited"
    /\ trace[2].waits = <<60, 4>>

(* C8 as claimed: a GET is followed by exactly one inter-request delay if  *)
(* it succeeded and by none if it failed.                                  *)
C8_DelayIffSuccess ==
    \A i \in 1 .. Len(trace) :
        trace[i].delay = (IF trace[i].o = "Success" THEN 1 ELSE 0)

(* C8 as amended: a successful GET is followed by exactly one              *)
(* inter-request delay before its body is returned, whatever failed        *)
(* before; a GET that fails with a timeout, an HTTP error status or a      *)
(* network error is followed by none; but a 2xx answer whose body does not *)
(* parse is followed by one too, because the delay is slept before the     *)
(* body is parsed.                                                         *)
C8_DelayAfter2xx ==
    \A i \in 1 .. Len(trace) :
        trace[i].delay =
            (IF trace[i].o \in {"Success", "MalformedResponse"} THEN 1 ELSE 0)

C8_Witness ==
    /\ Len(trace) = 3
    /\ Hist = <<"Timeout", "MalformedResponse", "Success">>
    /\ trace[1].delay = 0
    /\ trace[2].delay = 1
    /\ trace[3].delay = 1
    /\ Returned
    /\ th[0].response.ok

----------------------------------------------------------------------------
(* Properties of the pagination loops (SpecPage) *)

PageDone == th[0].ppc = "done"
N == StreamLen(th[0].kind)
LoopEntered == th[0].page >= 1

(* C1: when every fetch succeeds, a pagination loop over a stream of n     *)
(* records with page size L issues ceil(n/L) requests if the last page is  *)
(* short and n/L + 1 if n is a multiple of L (1 for n = 0), each request   *)
(* being one GET when no GET fails, and returns the n records in order.    *)
C1_RequestCount ==
    (PageDone /\ LoopEntered /\ th[0].failedPage = 0) =>
        /\ th[0].reqs = (IF N % limit = 0 THEN (N \div limit) + 1
                         ELSE (N + limit - 1) \div limit)
        /\ th[0].acc = Stream(th[0].kind, th[0].id)
        /\ th[0].fails = 0 => th[0].gets = th[0].reqs

C1_Witness ==
    /\ impl = "full"
    /\ PageDone
    /\ limit = 2
    /\ N = 3
    /\ th[0].fails = 0
    /\ th[0].gets = 2
    /\ Len(th[0].acc) = 3

(* C2: when the fetch of page k fails terminally, the loop has stopped and *)
(* returned the records of pages 1 .. k-1, and page k is the last one it   *)
(* requested.                                                              *)
C2_PartialOnFailure ==
    th[0].failedPage # 0 =>
        LET k == th[0].failedPage
        IN  /\ PageDone
            /\ th[0].page = k
            /\ th[0].reqs = k
            /\ th[0].acc =
                  SubSeq(Stream(th[0].kind, th[0].id), 1, (k - 1) * limit)

C2_Witness ==
    /\ impl = "full"
    /\ th[0].kind = "measurements"
    /\ th[0].failedPage = 2
    /\ limit = 2
    /\ N = 4
    /\ PageDone
    /\ Len(th[0].acc) = 2

----------------------------------------------------------------------------
(* Properties of one run (Spec) *)

RunEnded == run.pc \in {"done", "aborted"}

AllSensors == {run.all_sensors[k] : k \in 1 .. Len(run.all_sensors)}

(* C9: whatever the fetches answer, a fetch that exhausts its retries      *)
(* never aborts the run: with an upstream that has locations and sensors,  *)
(* a run of the full-scale or of the Nepal ingester that has ended has     *)
(* attempted every sensor it knows and has reached its end-of-run summary. *)
C9_NeverAborts ==
    (impl \in Retrying /\ world.locs > 0 /\ world.sens > 0 /\ RunEnded)
        => /\ run.summary # NoSummary
           /\ AllSensors \subseteq run.attempted

(* C10, as the code has it: immediately after every addition to the        *)
(* measurement buffer followed by its threshold check the buffer holds     *)
(* fewer than T records; the check flushes exactly when the length has     *)
(* reached or passed T, the flush takes the whole buffer (which may hold   *)
(* more than T records) and leaves it empty.                               *)
C10_BelowThresholdAfterCheck ==
    /\ Len(run.current_batch) < batch_size
    /\ run.last.flushed <=> run.last.peak >= batch_size
    /\ run.last.flushed => run.last.after = 0
    /\ run.pc \in {"batch", "measure", "final"}
          => Len(run.current_batch) = run.last.after

(* C10 witness: a threshold check found more than T records in the buffer, *)
(* flushed them into one file and left the buffer empty.                   *)
C10_Witness ==
    /\ run.last.flushed
    /\ run.last.peak > batch_size
    /\ run.current_batch = <<>>
    /\ \E k \in 1 .. Len(files) : Len(files[k].data) = run.last.peak

(* C10 as stated: the buffer is flushed and cleared before it would exceed *)
(* T, so it never holds more than T records, and it is empty after every   *)
(* flush.                                                                  *)
C10_NeverExceedsT ==
    /\ run.last.peak <= batch_size
    /\ Len(run.current_batch) <= batch_size
    /\ run.last.flushed => run.last.after = 0

RECURSIVE SumSizes(_)
SumSizes(fl) == IF fl = <<>> THEN 0 ELSE Head(fl).size + SumSizes(Tail(fl))

(* The sensor loop is over and the final flush has not happened: every     *)
(* flush so far was a threshold flush.  Buffered is the number of records  *)
(* that were added to the measurement buffer, which the full-scale and the *)
(* Nepal ingester count themselves.                                        *)
LoopOver == run.pc = "final"
Buffered ==
    CASE impl = "full" -> progress.total_measurements
      [] impl = "nepal" -> progress.measurements_collected
      [] OTHER -> SumSizes(run.flushes) + Len(run.current_batch)

(* C11 as stated: T + 1 records buffered with threshold T make exactly one *)
(* threshold flush, of exactly T records, and leave exactly 1 record in    *)
(* the buffer.                                                             *)
C11_OneFlushOfExactlyT ==
    (LoopOver /\ Buffered = batch_size + 1)
        => /\ Len(run.flushes) = 1
           /\ run.flushes[1].size = batch_size
           /\ Len(run.current_batch) = 1

(* C11, as the code has it: with T >= 2, T + 1 records buffered make       *)
(* exactly one threshold flush, which takes everything the buffer holds    *)
(* at its check: T records, the last record then staying in the buffer,    *)
(* when an addition brought the length to exactly T, or all T + 1 records, *)
(* nothing staying, when one addition took the length from below T past    *)
(* it.  With T = 1 each addition is flushed at once: the records go out in *)
(* one or two flushes and nothing stays.                                   *)
C11_OneFlushOfWholeBuffer ==
    (LoopOver /\ Buffered = batch_size + 1)
        => IF batch_size >= 2
           THEN /\ Len(run.flushes) = 1
                /\ \/ /\ run.flushes[1].size = batch_size
                      /\ Len(run.current_batch) = 1
                   \/ /\ run.flushes[1].size = batch_size + 1
                      /\ run.current_batch = <<>>
           ELSE /\ Len(run.flushes) \in {1, 2}
                /\ run.current_batch = <<>>

(* C11 witness: the full-scale ingester buffered T + 1 records in two      *)
(* additions, the second of which took the buffer past T, and flushed all  *)
(* T + 1 of them at once.                                                  *)
C11_Witness ==
    /\ impl = "full"
    /\ LoopOver
    /\ batch_size >= 2
    /\ Buffered = batch_size + 1
    /\ Len(run.flushes) = 1
    /\ run.flushes[1].size = batch_size + 1
    /\ run.i > sensor_batch_size

(* The batch counter: stats['batch_count'] of the full-scale ingester, the *)
(* local batch_count of the Nepal ingester.                                *)
BatchCounter ==
    IF impl = "full" THEN progress.batch_count ELSE run.batch_count

Written == {k \in 1 .. Len(run.flushes) : run.flushes[k].ok}

(* The last addition to the buffer ended in a threshold flush whose write  *)
(* failed.                                                                 *)
ThresholdFlushFailed ==
    /\ run.last.flushed
    /\ run.flushes # <<>>
    /\ ~run.flushes[Len(run.flushes)].final
    /\ ~run.flushes[Len(run.flushes)].ok

(* C12: when a flush fails, the buffer keeps all of its records for a      *)
(* later flush attempt and the batch counter is not incremented: records   *)
(* leave the buffer, and the counter counts, only with a successful flush. *)
C12_FailedFlushKeepsBuffer ==
    impl \in Retrying
        => /\ ThresholdFlushFailed => Len(run.current_batch) >= run.last.peak
           /\ BatchCounter = Cardinality(Written)

(* C13: within one run no two flushes (threshold flushes and the final     *)
(* flush) are given the same file name, none reuses the name of the        *)
(* locations or sensors file, and the batch index in the names of the      *)
(* threshold flushes strictly increases from one flush to the next.        *)
C13_DistinctFileNames ==
    /\ \A j, k \in 1 .. Len(run.flushes) :
          j < k => /\ run.flushes[j].name # run.flushes[k].name
                   /\ ~run.flushes[j].final
                   /\ ~run.flushes[k].final
                         => run.flushes[j].name.index < run.flushes[k].name.index
    /\ \A j, k \in 1 .. Len(files) : j < k => files[j].name # files[k].name

(* C13 witness: a run made two threshold flushes, or a threshold flush and *)
(* then the final flush, and both files were written.                      *)
C13_Witness ==
    /\ Len(run.flushes) = 2
    /\ run.flushes[1].ok
    /\ run.flushes[2].ok
    /\ run.pc = "done"
    /\ Len(files) = 4

Shared == {"total_locations", "total_sensors", "total_measurements",
           "countries_processed", "current_sensor", "batch_count",
           "current_batch", "all_measurements"}

WorkersBusy == \E w \in Workers : th[w].ppc = "fetching"

(* C20 as stated: in the full-scale ingester every increment of a          *)
(* statistics counter and every append to, check of and flush of the       *)
(* measurement buffer is made while self.lock is held.                     *)
C20_EverythingUnderTheLock == \A m \in run.muts : m.locked

(* C20, as the code has it: the counters and the measurement lists are     *)
(* mutated by the main thread only, also while the workers run, so that no *)
(* two threads mutate them at the same time; a step of a worker thread     *)
(* leaves them as they are.  self.lock is held for the increments of       *)
(* total_locations, total_sensors, current_sensor and total_measurements   *)
(* and for nothing else.                                                   *)
C20_MainThreadOnly ==
    /\ [](\A m \in run.muts :
            /\ m.thread = 0
            /\ m.target \in Shared
            /\ m.locked <=> m.target \in {"total_locations", "total_sensors",
                                          "current_sensor",
                                          "total_measurements"})
    /\ [][(\E w \in Workers : th'[w] # th[w])
             => /\ progress' = progress
                /\ run'.current_batch = run.current_batch
                /\ pool'.all_measurements = pool.all_measurements
                /\ run'.measurement_batches = run.measurement_batches]_vars

(* C20 witness: while a worker is still fetching, the main thread has      *)
(* counted a returned sensor under the lock, and it has already extended   *)
(* and flushed the buffer of an earlier batch without the lock.            *)
C20_Witness ==
    /\ impl = "full"
    /\ WorkersBusy
    /\ [target |-> "total_measurements", thread |-> 0, locked |-> TRUE]
          \in run.muts
    /\ [target |-> "batch_count", thread |-> 0, locked |-> FALSE] \in run.muts
    /\ progress.current_sensor > sensor_batch_size

----------------------------------------------------------------------------
(* Properties of a run under interruption and errors (SpecSignals) *)

Rank(phase) ==
    CASE phase = "Init" -> 1
      [] phase = "CollectingLocations" -> 2
      [] phase = "ExtractingSensors" -> 3
      [] phase = "CollectingMeasurements" -> 4
      [] phase = "Summarizing" -> 5
      [] phase = "Done" -> 6
      [] phase = "Aborted" -> 7

RECURSIVE PerCountry(_)
PerCountry(n) ==
    IF n = 0
    THEN <<>>
    ELSE <<"CollectingLocations", "ExtractingSensors">> \o PerCountry(n - 1)

(* C14 as stated: the phases of a run are entered in the order Init,       *)
(* CollectingLocations, ExtractingSensors, CollectingMeasurements,         *)
(* Summarizing, Done, with Aborted as the only other, terminal, phase: no  *)
(* phase is entered after a later one.                                     *)
C14_PhasesInOrder ==
    \A j, k \in 1 .. Len(run.phases) :
        j < k => Rank(run.phases[j]) < Rank(run.phases[k])

(* C14, as the code has it: the full-scale run collects the locations and  *)
(* extracts the sensors country by country, so CollectingLocations is      *)
(* entered again after ExtractingSensors for every further country; apart  *)
(* from that the phases are entered in the stated order, Aborted is        *)
(* terminal, and once measurement collection has begun no location page is *)
(* requested any more.                                                     *)
C14_PhasesPerCountry ==
    /\ run.phases[1] = "Init"
    /\ \A k \in 1 .. Len(run.phases) - 1 :
          \/ Rank(run.phases[k]) < Rank(run.phases[k + 1])
          \/ /\ impl = "full"
             /\ run.phases[k] = "ExtractingSensors"
             /\ run.phases[k + 1] = "CollectingLocations"
    /\ (impl = "full" /\ run.pc = "done")
          => run.phases = <<"Init">> \o PerCountry(MaxCountries)
                             \o <<"CollectingMeasurements", "Summarizing", "Done">>
    /\ (\E k \in 1 .. Len(run.phases) : Rank(run.phases[k]) >= 4)
          => \A t \in Threads :
                th[t].ppc = "fetching" => th[t].kind = "measurements"

(* C14 witness: a full-scale run is collecting the locations of its second *)
(* country after it has extracted the sensors of the first.                *)
C14_Witness ==
    /\ impl = "full"
    /\ run.phases = <<"Init", "CollectingLocations", "ExtractingSensors",
                      "CollectingLocations">>
    /\ th[0].ppc = "fetching"
    /\ th[0].kind = "locations"
    /\ run.all_sensors # <<>>

(* The run has ended after a KeyboardInterrupt that arrived during         *)
(* measurement collection.                                                 *)
InterruptedWhileMeasuring ==
    /\ run.signal.kind = "KeyboardInterrupt"
    /\ run.signal.phase \in {"batch", "measure"}
    /\ run.pc \in {"interrupted", "raised"}

(* C15: an interruption during measurement collection makes                *)
(* run_full_ingestion go to summarizing: the summary file is written with  *)
(* status "interrupted", and its location, sensor and measurement counts   *)
(* are those collected before the signal.                                  *)
C15_InterruptedSummary ==
    (impl = "full" /\ InterruptedWhileMeasuring)
        => /\ run.pc = "interrupted"
           /\ run.summary.status = "interrupted"
           /\ run.summary.counts.total_locations = Len(run.all_locations)
           /\ run.summary.counts.total_sensors = Len(run.all_sensors)
           /\ run.summary.counts.total_locations
                 = run.signal.counts.total_locations
           /\ run.summary.counts.total_sensors
                 = run.signal.counts.total_sensors
           /\ run.summary.counts.total_measurements
                 = run.signal.counts.total_measurements
           /\ run.phases[Len(run.phases) - 1] = "Summarizing"

(* C15 witness: a full-scale run was interrupted while its workers were    *)
(* fetching, after some measurements had been counted, and wrote its       *)
(* summary.                                                                *)
C15_Witness ==
    /\ impl = "full"
    /\ InterruptedWhileMeasuring
    /\ run.signal.counts.total_measurements > 0
    /\ run.summary.status = "interrupted"
    /\ run.summary.counts.total_measurements > 0

FinalFlushOf(buffer) ==
    \E k \in 1 .. Len(run.flushes) :
        run.flushes[k].final /\ run.flushes[k].size >= Len(buffer)

InFiles == UNION {Range(files[k].data) : k \in 1 .. Len(files)}

(* C16: when a run is interrupted during measurement collection while the  *)
(* measurement buffer is not empty, a final flush hands every buffered     *)
(* record to a file before the run ends.                                   *)
C16_FinalFlushOnInterrupt ==
    (impl \in Retrying /\ InterruptedWhileMeasuring
        /\ run.signal.buffer # <<>>)
        => FinalFlushOf(run.signal.buffer)

(* C17: when the interrupt arrives while the worker pool processes a batch *)
(* of sensors, the measurement records of the workers that had already     *)
(* returned are retained: at the end of the run they are in the buffer or  *)
(* in a flush.                                                             *)
C17_ReturnedResultsRetained ==
    (impl = "full" /\ InterruptedWhileMeasuring /\ run.signal.phase = "batch")
        => run.signal.returned \subseteq Range(run.current_batch) \cup InFiles

(* The run has ended with an exception other than KeyboardInterrupt. *)
EndedByError == run.signal.kind = "Exception" /\ run.pc = "raised"

(* C18: when an unexpected error ends a run, the summarizing step is still *)
(* done: the run summary is written and what the run had collected is      *)
(* preserved, the records waiting in the buffer included.                  *)
C18_SummaryAfterError ==
    (impl = "full" /\ EndedByError)
        => /\ run.summary.status # "none"
           /\ run.signal.buffer # <<>> => FinalFlushOf(run.signal.buffer)

----------------------------------------------------------------------------
(* Properties of repeated invocations (SpecAgain) *)

(* C19: the statistics counters are reset at the start of a run: every     *)
(* invocation of the run method, a second one on the same ingester         *)
(* included, finds the counters for locations, sensors, measurements,      *)
(* errors and batches at 0.                                                *)
C19_CountersResetAtStart == run.at_start = ZeroProgress

----------------------------------------------------------------------------
(* Properties of the worker pool (SpecPool) *)

(* The workers that are inside get_sensor_measurements_single. *)
InProgress == {w \in Workers : th[w].ppc # "idle"}

NoDuplicates(seq) == \A j, k \in 1 .. Len(seq) : j # k => seq[j] # seq[k]

(* C21: at every moment at most max_workers pagination loops are in        *)
(* progress, each worker is in the loop of one sensor that no other worker *)
(* has, every sensor of the submitted batch is in exactly one place        *)
(* (waiting, in progress, finished, joined), no sensor is joined twice,    *)
(* and when the batch call returns every sensor of the batch has been      *)
(* joined.                                                                 *)
C21_BoundedPool ==
    /\ [](/\ Cardinality(InProgress) <= max_workers
          /\ \A w, v \in InProgress : w # v => th[w].id # th[v].id
          /\ \A w \in InProgress : th[w].kind = "measurements"
          /\ NoDuplicates(pool.joined)
          /\ Range(pool.joined) \subseteq Range(pool.batch)
          /\ run.pc = "batch"
                => /\ Len(pool.queue) + Cardinality(InProgress)
                         + Cardinality(pool.finished) + Len(pool.joined)
                         = Len(pool.batch)
                   /\ Range(pool.batch)
                         = Range(pool.queue) \cup Range(pool.joined)
                             \cup {th[w].id : w \in InProgress}
                             \cup {f.sensor : f \in pool.finished})
    /\ [][(run.pc = "batch" /\ (run'.pc # "batch" \/ run'.i # run.i))
             => /\ Len(pool.joined) = Len(pool.batch)
                /\ Range(pool.joined) = Range(pool.batch)]_vars

(* C21 witness: all max_workers workers are busy while a result has been   *)
(* joined out of submission order and the last sensor of the batch, which  *)
(* had to wait for a free worker, is in progress.                          *)
C21_Witness ==
    /\ Cardinality(InProgress) = max_workers
    /\ pool.joined # <<>>
    /\ pool.joined[1] # pool.batch[1]
    /\ \E w \in InProgress : th[w].id = pool.batch[Len(pool.batch)]
    /\ Len(pool.batch) > max_workers

----------------------------------------------------------------------------
(* SpecFlat: one location of the API is fetched, its sensors are           *)
(* extracted, and the measurements of its first sensor are fetched and     *)
(* given their context.  Every nested field of the location and of the     *)
(* sensor is absent, null or present.                                      *)

Maybe(x) == {Missing, x}
Nullable(x) == {Missing, PyNone, x}

RawSensors ==
    {Dict([id |-> i, name |-> n, parameter |-> p]) :
        i \in Maybe(V("S1")), n \in Maybe(V("pm25 ug/m3")),
        p \in Nullable(D([name |-> V("pm25")]))}

RawLocations ==
    {Dict([id |-> i, name |-> n, country |-> c, coordinates |-> xy,
           provider |-> p, sensors |-> ss]) :
        i \in Maybe(V("L1")), n \in Maybe(V("Thamel")),
        c \in Nullable(D([name |-> V("Nepal"), code |-> V("NP")])),
        xy \in Nullable(D([latitude |-> V("27.7"), longitude |-> V("85.3")])),
        p \in Nullable(D([name |-> V("AirNow")])),
        ss \in {Missing, PyNone, L(<<>>)} \cup {L(<<x>>) : x \in RawSensors}}

(* A measurement of the API, without and with keys of its own that have    *)
(* the names of context columns.                                           *)
RawMeasurements ==
    {[value |-> V("12.5")],
     [value |-> V("12.5"), location_id |-> V("L9"),
      location_name |-> V("elsewhere"), coordinates_lat |-> V("0.0"),
      coordinates_lon |-> V("0.0"), sensor_id |-> V("S9")]}

InitFlat ==
    /\ impl \in Retrying
    /\ jsonIsReqEx = TRUE
    /\ limit = MaxLimit
    /\ world = [locs |-> 1, sens |-> 1, meas |-> 1]
    /\ batch_size = MaxBatch
    /\ ghost = "count"
    /\ th = [t \in Threads |->
               IF t = 0 THEN Paginate(IdleThread, "locations", 1)
               ELSE IdleThread]
    /\ trace = <<>>
    /\ progress = ZeroProgress
    /\ run = IdleRun
    /\ pool = IdlePool
    /\ files = <<>>
    /\ flat = [NoFlat EXCEPT !.pc = "locations"]

(* extract_sensors_from_locations on the locations that the pagination     *)
(* returned, and the call of the measurement loop for the first sensor.    *)
ExtractSensors ==
    /\ flat.pc = "locations"
    /\ th[0].ppc = "done"
    /\ \E location \in RawLocations, m \in RawMeasurements :
          LET locations == [i \in 1 .. Len(th[0].acc) |-> location]
              raises == \E i \in 1 .. Len(locations) :
                            ExtractRaises(locations[i])
              sensors == ExtractAll(locations)
              sensor_id == get(sensors[1], "sensor_id", PyNone)
          IN  IF raises
              THEN /\ flat' = [flat EXCEPT
                                  !.pc = "raised", !.location = location,
                                  !.raised =
                                      IF location_sensors(location).t # "list"
                                      THEN "TypeError" ELSE "AttributeError"]
                   /\ th' = [th EXCEPT ![0] = IdleThread]
                   /\ UNCHANGED progress
              ELSE /\ progress' =
                         IF impl = "nepal"
                         THEN [progress EXCEPT
                                  !.sensors_processed = Len(sensors)]
                         ELSE [progress EXCEPT
                                  !.total_sensors = @ + Len(sensors)]
                   /\ flat' = [flat EXCEPT
                                  !.pc = IF sensors = <<>> THEN "done"
                                         ELSE "measurements",
                                  !.location = location,
                                  !.sensors = sensors,
                                  !.api_measurement = m,
                                  !.entry = progress']
                   /\ th' = [th EXCEPT ![0] =
                                IF sensors = <<>>
                                THEN IdleThread
                                ELSE Paginate(IdleThread, "measurements",
                                              IF sensor_id = PyNone
                                              THEN 0 ELSE 1)]
    /\ UNCHANGED <<impl, jsonIsReqEx, limit, world, trace, ghost, batch_size,
                   run, pool, files>>

NextFlat ==
    \/ \E o \in Outcomes : Get(0, o)
    \/ PageHandle(0)
    \/ ExtractSensors

SpecFlat == InitFlat /\ [][NextFlat]_vars

----------------------------------------------------------------------------
(* Properties of the flattening (SpecFlat) *)

(* C22: sensor extraction and context injection never raise, whatever      *)
(* nested field of the location or of the sensor is absent or null.        *)
C22_FlatteningNeverFails == flat.raised = "no"

(* The parent's id, name and coordinates as they are in the location       *)
(* record, a missing one being null.                                       *)
Parent(location) ==
    [id |-> get(location, "id", PyNone),
     name |-> get(location, "name", PyNone),
     latitude |-> Nested(location, "coordinates", "latitude"),
     longitude |-> Nested(location, "coordinates", "longitude")]

(* The same, read back from the context columns of a sensor record and of  *)
(* a measurement record.                                                   *)
RecoveredFromSensor(si) ==
    [id |-> get(si, "location_id", PyNone),
     name |-> get(si, "location_name", PyNone),
     latitude |-> Nested(si, "coordinates", "latitude"),
     longitude |-> Nested(si, "coordinates", "longitude")]

RecoveredFromMeasurement(m) ==
    [id |-> get(m, "location_id", PyNone),
     name |-> get(m, "location_name", PyNone),
     latitude |-> get(m, "coordinates_lat", PyNone),
     longitude |-> get(m, "coordinates_lon", PyNone)]

(* The Nepal ingester's default for a missing name. *)
NameOrUnknown(parent) ==
    IF parent.name = PyNone THEN V("Unknown") ELSE parent.name

(* C23 as stated: every sensor record and every measurement record gives   *)
(* back the parent's id, name and coordinates exactly.                     *)
C23_ContextRoundTrip ==
    /\ \A i \in 1 .. Len(flat.sensors) :
          RecoveredFromSensor(flat.sensors[i]) = Parent(flat.location)
    /\ \A i \in 1 .. Len(flat.measurements) :
          RecoveredFromMeasurement(flat.measurements[i])
              = Parent(flat.location)

(* C23: the records of the full-scale ingester give back the parent's id,  *)
(* name and coordinates exactly (a missing one as null), whatever keys the *)
(* raw measurement has of its own.  A Nepal sensor record gives back id    *)
(* and coordinates, and the name with "Unknown" for a missing one; a Nepal *)
(* measurement record gives back id and name likewise and carries no       *)
(* parent coordinates: its coordinates_lat / coordinates_lon are those of  *)
(* the raw measurement, if it has any.                                     *)
C23_ContextRecovered ==
    LET parent == Parent(flat.location)
    IN  IF impl = "nepal"
        THEN /\ \A i \in 1 .. Len(flat.sensors) :
                   RecoveredFromSensor(flat.sensors[i])
                       = [parent EXCEPT !.name = NameOrUnknown(parent)]
             /\ \A i \in 1 .. Len(flat.measurements) :
                   RecoveredFromMeasurement(flat.measurements[i])
                       = [id |-> parent.id,
                          name |-> NameOrUnknown(parent),
                          latitude |-> get(flat.api_measurement,
                                           "coordinates_lat", PyNone),
                          longitude |-> get(flat.api_measurement,
                                            "coordinates_lon", PyNone)]
        ELSE C23_ContextRoundTrip

(* C23 witness: a measurement record of the full-scale ingester, made from *)
(* a raw measurement that has keys named like context columns, under a     *)
(* location that has coordinates and no name.                              *)
C23_Witness ==
    /\ impl = "full"
    /\ flat.measurements # <<>>
    /\ "location_id" \in DOMAIN flat.api_measurement
    /\ "coordinates" \in DOMAIN flat.location
    /\ flat.location["coordinates"].t = "dict"
    /\ "name" \notin DOMAIN flat.location

(* A step of a pagination loop (a GET or the handling of its response). *)
PaginationStep == th[0].ppc = "fetching" /\ th'[0] # th[0]

(* C24 as stated: the records of the response are never changed, and no    *)
(* step of a pagination loop changes a statistics counter.                 *)
C24_PureAndStateless ==
    /\ [](\A i \in 1 .. Len(flat.results) :
             flat.results[i] = flat.api_measurement)
    /\ [][PaginationStep => progress' = progress]_vars

(* The counters a pagination loop writes. *)
Touched ==
    IF impl = "nepal"
    THEN {"locations_processed", "measurements_collected",
          "errors_encountered"}
    ELSE {"total_locations"}

(* C24: context injection changes the raw measurement objects in place     *)
(* (the list returned holds the updated objects of the response) and       *)
(* leaves the location and the sensor records as they were; a pagination   *)
(* loop changes no counter but its own: the Nepal loops add each page's    *)
(* records to locations_processed / measurements_collected and count the   *)
(* failed requests, the full-scale location loop adds the number of        *)
(* locations it returns to total_locations, and the full-scale             *)
(* measurement loop changes none.                                          *)
C24_FrameOfFlattenAndPaginate ==
    /\ [](/\ flat.measurements = flat.results
          /\ \A i \in 1 .. Len(flat.results) :
                flat.results[i]
                    = update(flat.api_measurement,
                             measurement_context(flat.sensors[1])))
    /\ [][flat.pc = "measurements"
             => /\ flat'.location = flat.location
                /\ flat'.sensors = flat.sensors]_vars
    /\ [][PaginationStep
             => LET appended == Len(th'[0].acc) - Len(th[0].acc)
                    kind == th[0].kind
                    ends == th'[0].ppc = "done"
                IN  /\ \A c \in DOMAIN progress \ Touched :
                          progress'[c] = progress[c]
                    /\ impl = "full" /\ kind = "measurements"
                          => progress' = progress
                    /\ impl = "full" /\ kind = "locations"
                          => progress'.total_locations
                                = progress.total_locations
                                    + IF ends THEN Len(th'[0].acc) ELSE 0
                    /\ impl = "nepal" /\ kind = "locations"
                          => progress'.locations_processed
                                = progress.locations_processed + appended
                    /\ impl = "nepal" /\ kind = "measurements"
                          => progress'.measurements_collected
                                = progress.measurements_collected + appended
                    /\ progress'.errors_encountered
                          >= progress.errors_encountered]_vars

(* C24 witness: a measurement record has been made, its raw object is no   *)
(* longer what the API delivered, and the pagination loops have counted.   *)
C24_Witness ==
    /\ flat.measurements # <<>>
    /\ flat.results[1] # flat.api_measurement
    /\ progress.total_locations + progress.locations_processed > 0

----------------------------------------------------------------------------
(* SpecEquiv: one measurement loop of one implementation, every GET        *)
(* answered in every possible way and recorded in `trace`; the fetch       *)
(* routines and loops of the other implementations are then computed on    *)
(* the answers recorded.  The loops that run into a second page are those  *)
(* of the Nepal and the general ingester (the full-scale one is computed   *)
(* on their answers), which keeps the number of recorded traces small.     *)

InitEquiv ==
    /\ impl \in Impls
    /\ jsonIsReqEx \in BOOLEAN
    /\ limit = MaxLimit
    /\ ghost = "trace"
    /\ trace = <<>>
    /\ progress = ZeroProgress
    /\ NoRun
    /\ \E n \in {0, MaxLimit - 1, MaxLimit} :
          /\ n = MaxLimit => impl # "full"
          /\ world = [locs |-> 0, sens |-> 0, meas |-> n]
    /\ th = [t \in Threads |->
               IF t = 0 THEN Paginate(IdleThread, "measurements", 1)
               ELSE IdleThread]

SpecEquiv == InitEquiv /\ [][NextPage]_vars

(* The answers to the GETs of the p-th request of a recorded loop: a       *)
(* request starts where the attempt number is 0.                           *)
Starts(tr) == {k \in 1 .. Len(tr) : tr[k].attempt = 0}

StartOf(tr, p) ==
    CHOOSE k \in Starts(tr) : Cardinality({j \in Starts(tr) : j < k}) = p - 1

AnswersOf(tr, p) ==
    LET from == StartOf(tr, p)
        to == IF p < Cardinality(Starts(tr))
              THEN StartOf(tr, p + 1) - 1
              ELSE Len(tr)
    IN  [k \in 1 .. to - from + 1 |-> tr[from + k - 1].o]

(* The retry loop of implementation i on the answers s, from iteration a:  *)
(* the number of GETs issued and whether a body is returned.  When the     *)
(* loop wants an answer that s does not have, it has issued one GET more   *)
(* than s answers.                                                         *)
RECURSIVE FetchOn(_, _, _)
FetchOn(i, s, a) ==
    IF a + 1 > Len(s)
    THEN [gets |-> a + 1, ok |-> FALSE]
    ELSE LET step == AttemptOf(i, a, s[a + 1])
         IN  IF step.next = "continue" /\ a + 1 < AttemptsOf(i)
             THEN FetchOn(i, s, a + 1)
             ELSE [gets |-> a + 1, ok |-> step.next = "return"]

(* The measurement loop of implementation i for sensor id, the GETs of its *)
(* p-th request answered as those of the p-th recorded request: the GETs   *)
(* per page requested, and the records returned.                           *)
RECURSIVE LoopOn(_, _, _, _, _, _)
LoopOn(i, id, tr, page, gets, acc) ==
    IF page > Cardinality(Starts(tr))
    THEN [gets |-> Append(gets, 1), records |-> acc]
    ELSE LET r == FetchOn(i, AnswersOf(tr, page), 0)
             response == IF r.ok
                         THEN Body(ServerPage("measurements", id, page), 0)
                         ELSE None
             results == IF r.ok THEN response.results ELSE <<>>
         IN  IF LoopStops(response)
             THEN [gets |-> Append(gets, r.gets), records |-> acc \o results]
             ELSE LoopOn(i, id, tr, page + 1, Append(gets, r.gets),
                         acc \o results)

PaginateOn(i, tr) == LoopOn(i, 1, tr, 1, <<>>, <<>>)

----------------------------------------------------------------------------
(* Properties of the three implementations side by side (SpecEquiv) *)

RECURSIVE SumOf(_)
SumOf(seq) == IF seq = <<>> THEN 0 ELSE Head(seq) + SumOf(Tail(seq))

IsPrefix(s, t) == Len(s) <= Len(t) /\ SubSeq(t, 1, Len(s)) = s

LoopReturned == th[0].ppc = "done"

(* C25 as stated: on the answers recorded, the three implementations issue *)
(* the same number of GETs for every page, request the same pages and      *)
(* return the same records.                                                *)
C25_SameGetsPagesRecords ==
    LoopReturned
        => \A i \in Impls : PaginateOn(i, trace) = PaginateOn(impl, trace)

(* C25: the three implementations coincide (GETs per page, pages           *)
(* requested, records returned) when every GET succeeds.  Otherwise they   *)
(* differ in the number of GETs per page: exactly one in the general       *)
(* ingester, at most max_retries in the Nepal one, at most retries + 1 in  *)
(* the full-scale one; and what the general ingester returns is a prefix   *)
(* of what the others return.  The loop computed for the running           *)
(* implementation is the loop that ran.                                    *)
C25_SameWhenEveryGetSucceeds ==
    LoopReturned
        => LET mine == PaginateOn(impl, trace)
           IN  /\ mine.records = th[0].acc
               /\ Len(mine.gets) = th[0].reqs
               /\ SumOf(mine.gets) = th[0].gets
               /\ (\A k \in 1 .. Len(trace) : trace[k].o = "Success")
                     => \A i \in Impls : PaginateOn(i, trace) = mine
               /\ \A i \in Impls :
                     LET r == PaginateOn(i, trace)
                     IN  \A p \in 1 .. Len(r.gets) :
                            /\ i = "basic" => r.gets[p] = 1
                            /\ i = "nepal" => r.gets[p] <= max_retries
                            /\ i = "full" => r.gets[p] <= retries + 1
               /\ IsPrefix(PaginateOn("basic", trace).records, mine.records)

(* C25 witness: the Nepal loop has requested two pages and retried a GET,  *)
(* and the general ingester would have returned something else.            *)
C25_Witness ==
    /\ LoopReturned
    /\ impl = "nepal"
    /\ th[0].reqs = 2
    /\ Len(trace) > 2
    /\ PaginateOn("basic", trace).records # th[0].acc

----------------------------------------------------------------------------
(* Properties of the measurement files and of the summary (Spec) *)

MeasurementKinds == {"measurements_batch", "measurements_final"}

(* The places (file, position) of a record in the measurement files. *)
PlacesOf(rec) ==
    UNION {{<<k, j>> : j \in {x \in 1 .. Len(files[k].data) :
                                  files[k].data[x] = rec}} :
              k \in {y \in 1 .. Len(files) :
                        files[y].name.kind \in MeasurementKinds}}

(* The number of records in the file of that name (0 when there is none). *)
SizeOfFile(name) ==
    IF \E k \in 1 .. Len(files) : files[k].name = name
    THEN Len(files[CHOOSE k \in 1 .. Len(files) : files[k].name = name].data)
    ELSE 0

RECURSIVE SumFileSizes(_)
SumFileSizes(names) ==
    IF names = <<>>
    THEN 0
    ELSE SizeOfFile(Head(names)) + SumFileSizes(Tail(names))

CompletedAllWritesOk ==
    /\ impl = "full"
    /\ run.pc = "done"
    /\ \A k \in 1 .. Len(run.flushes) : run.flushes[k].ok

(* C26: in a run of the full-scale ingester that completed with every      *)
(* flush written, every measurement record a worker returned is in exactly *)
(* one measurement file, at one position, and the sizes of the files the   *)
(* summary lists as measurement batches add up to its total_measurements.  *)
C26_EveryRecordInOneFile ==
    CompletedAllWritesOk
        => /\ \A rec \in run.returned : Cardinality(PlacesOf(rec)) = 1
           /\ SumFileSizes(run.summary.measurement_files)
                 = run.summary.counts.total_measurements
           /\ run.summary.counts.total_measurements
                 = Cardinality(run.returned)

(* C26 witness: such a run with a threshold flush and a final flush, whose *)
(* workers returned records of more than one sensor.                       *)
C26_Witness ==
    /\ CompletedAllWritesOk
    /\ Len(run.summary.measurement_files) >= 2
    /\ Cardinality({rec[2] : rec \in run.returned}) >= 2

(* The file names under output_files of the summary. *)
ListedFiles ==
    {run.summary.locations, run.summary.sensors}
        \cup {run.summary.measurement_files[k] :
                 k \in 1 .. Len(run.summary.measurement_files)}

(* C27: every file name that the summary of the full-scale ingester lists  *)
(* under output_files is the name of a file that was written.              *)
C27_ListedFilesExist ==
    (impl = "full" /\ run.summary # NoSummary)
        => \A name \in ListedFiles :
              \E k \in 1 .. Len(files) : files[k].name = name

MeasurementPhase == impl = "full" /\ run.pc \in {"batch", "final", "done"}

----------------------------------------------------------------------------
(* Termination of the pagination loops (SpecPageFair) *)

PageLen(p) == Len(ServerPage(th[0].kind, th[0].id, p))

(* C29: every pagination loop over a finite stream returns.  No request    *)
(* makes more GETs than its retry loop has iterations (retries + 1 in the  *)
(* full-scale ingester); the last page requested is the first one that     *)
(* failed, was empty or was short, all pages before it were full and       *)
(* fetched; and when the stream ends with a full page and no fetch fails,  *)
(* exactly one more page is requested, which is empty.                     *)
C29_LoopTerminates ==
    /\ <>PageDone
    /\ [](th[0].calls <= (CASE impl = "full" -> retries + 1
                            [] impl = "nepal" -> max_retries
                            [] impl = "basic" -> 1))
    /\ []((PageDone /\ LoopEntered)
            => LET last == th[0].page
               IN  /\ th[0].reqs = last
                   /\ \A p \in 1 .. last - 1 :
                         PageLen(p) = limit /\ th[0].failedPage # p
                   /\ th[0].failedPage = last \/ PageLen(last) < limit
                   /\ (th[0].failedPage = 0 /\ N > 0 /\ N % limit = 0)
                         => /\ last = (N \div limit) + 1
                            /\ PageLen(last) = 0
                            /\ PageLen(last - 1) = limit)

(* C29 witness: a loop over a stream of two full pages has returned after  *)
(* its third request, having retried a GET on the way.                     *)
C29_Witness ==
    /\ PageDone
    /\ impl = "full"
    /\ th[0].failedPage = 0
    /\ N = 2 * limit
    /\ th[0].reqs = 3
    /\ th[0].gets > th[0].reqs
    /\ Len(th[0].acc) = N

----------------------------------------------------------------------------
(* SpecBlocks: the measurement phase of a full-scale run over three        *)
(* sensors whose measurements fill more than one page, in two batches.     *)

BlockSensors == [k \in 1 .. sensor_batch_size + 1 |-> k]

InitBlocks ==
    /\ impl = "full"
    /\ jsonIsReqEx = TRUE
    /\ limit = 1
    /\ world = [locs |-> 1, sens |-> 1, meas |-> MaxMeas]
    /\ batch_size \in {MaxBatch, 2 * MaxBatch * MaxMeas}
    /\ th = [t \in Threads |-> IdleThread]
    /\ trace = <<>>
    /\ ghost = "off"
    /\ progress = ZeroProgress
    /\ run = [IdleRun EXCEPT
                 !.pc = "batch", !.all_sensors = BlockSensors, !.runs = 1,
                 !.phases = <<"Init", "CollectingLocations",
                              "ExtractingSensors", "CollectingMeasurements">>]
    /\ pool = [IdlePool EXCEPT !.queue = SensorBatch(BlockSensors, 0),
                               !.batch = SensorBatch(BlockSensors, 0)]
    /\ files = <<>>
    /\ flat = NoFlat

SpecBlocks == InitBlocks /\ [][NextPool]_vars

(* The measurement buffers: the list of the batch call, the buffer of the  *)
(* run, and what was flushed from it into the files.                       *)
MeasurementBuffers ==
    {pool.all_measurements, run.current_batch}
        \cup {files[k].data : k \in 1 .. Len(files)}

(* C30: in every measurement buffer the records of one sensor stand in one *)
(* contiguous block, in the order of the upstream stream (increasing page, *)
(* and within a page as delivered).                                        *)
C30_ContiguousBlocks ==
    \A buffer \in MeasurementBuffers :
        \A a, c \in 1 .. Len(buffer) :
            (a < c /\ buffer[a][2] = buffer[c][2])
                => /\ \A b \in a .. c : buffer[b][2] = buffer[a][2]
                   /\ buffer[a][3] < buffer[c][3]

(* C30 witness: two sensors of one batch have each returned records of two *)
(* pages, and the sensor submitted second was joined first.                *)
C30_Witness ==
    /\ Len(pool.all_measurements) >= 4
    /\ pool.joined = <<2, 1>>
    /\ pool.all_measurements[1] = <<"measurements", 2, 1>>
    /\ pool.all_measurements[2] = <<"measurements", 2, 2>>

====
